---- MODULE Spec2Model ----
(***************************************************************************)
(* Model of create-hetzner-server.py: a one-shot command-line tool that    *)
(* provisions a cloud server and its firewall through a REST API, polls    *)
(* until the server is running, writes a report, and has a clean command.  *)
(*                                                                         *)
(* Strings are sequences of atoms (an atom is a character or an            *)
(* indivisible word), so that strip(), startswith(), split() and lower()   *)
(* are computed as the code computes them.                                 *)
(***************************************************************************)
EXTENDS Integers, Sequences, FiniteSets, TLC

(* ------------------------------ bounds --------------------------------- *)
\* longest settings file, in lines
MaxLines == 3
\* longest listing a GET returns, in entries
MaxList == 2
\* provider-assigned ids are 1..MaxId
MaxId == 2

(* ------------------------------ strings -------------------------------- *)
Str(a) == <<a>>

\* str.lower(), atom by atom
LowerAtom(a) ==
    CASE a = "CLEAN" -> "clean"
      [] a = "Help"  -> "help"
      [] a = "YES"   -> "yes"
      [] a = "Y"     -> "y"
      [] a = "Yes"   -> "yes"
      [] a = "NO"    -> "no"
      [] a = "True"  -> "true"
      [] a = "TRUE"  -> "true"
      [] OTHER       -> a
Lower(s) == [i \in DOMAIN s |-> LowerAtom(s[i])]

RECURSIVE LStrip(_, _)
LStrip(s, chars) ==
    IF s # <<>> /\ Head(s) \in chars THEN LStrip(Tail(s), chars) ELSE s
RECURSIVE RStrip(_, _)
RStrip(s, chars) ==
    IF s # <<>> /\ s[Len(s)] \in chars
    THEN RStrip(SubSeq(s, 1, Len(s) - 1), chars) ELSE s
\* str.strip(chars)
Strip(s, chars) == RStrip(LStrip(s, chars), chars)
Whitespace == {" ", "\t"}

Contains(s, a) == \E i \in DOMAIN s : s[i] = a
FirstIndex(s, a) == CHOOSE i \in DOMAIN s : s[i] = a /\ \A j \in 1..(i - 1) : s[j] # a

(* --------------------------- configuration ----------------------------- *)
K_TOKEN    == Str("HETZNER_API_TOKEN")
K_NAME     == Str("SERVER_NAME")
K_TYPE     == Str("SERVER_TYPE")
K_LOCATION == Str("SERVER_LOCATION")
K_IMAGE    == Str("SERVER_IMAGE")
K_FIREWALL == Str("ENABLE_FIREWALL")
K_BACKUPS  == Str("ENABLE_BACKUPS")
K_SSH      == Str("SSH_KEY_NAME")
K_DOMAIN   == Str("DOMAIN_NAME")
K_CF       == Str("CLOUDFLARE_API_TOKEN")
Placeholder == Str("your-api-token-here")
CfPlaceholder == Str("your_cloudflare_api_token_here")

EmptyConfig == [k \in {} |-> <<>>]
\* config[key] = value
Put(config, key, value) ==
    [k \in DOMAIN config \cup {key} |-> IF k = key THEN value ELSE config[k]]
\* config.setdefault(key, value)
SetDefault(config, key, value) ==
    IF key \in DOMAIN config THEN config ELSE Put(config, key, value)
\* config.get(key, default)
Get(config, key, default) ==
    IF key \in DOMAIN config THEN config[key] ELSE default

\* one line of load_config's loop
ParseLine(config, rawline) ==
    LET line == Strip(rawline, Whitespace) IN
    IF line # <<>> /\ Head(line) # "#" /\ Contains(line, "=")
    THEN LET i     == FirstIndex(line, "=")
             key   == SubSeq(line, 1, i - 1)
             value == SubSeq(line, i + 1, Len(line))
         IN  Put(config, key,
                 Strip(Strip(Strip(value, Whitespace), {"\""}), {"'"}))
    ELSE config

RECURSIVE ParseLines(_, _)
ParseLines(config, lines) ==
    IF lines = <<>> THEN config
    ELSE ParseLines(ParseLine(config, Head(lines)), Tail(lines))

\* load_config on an existing file
load_config(file) == ParseLines(EmptyConfig, file)

\* variant: the placeholder test left out
validate_rejects_no_placeholder(config) ==
    \/ K_TOKEN \notin DOMAIN config
    \/ config[K_TOKEN] = <<>>

\* the required-key test of validate_config
validate_rejects(config) ==
    \/ K_TOKEN \notin DOMAIN config
    \/ config[K_TOKEN] = <<>>
    \/ config[K_TOKEN] = Placeholder

\* the setdefault block of validate_config
apply_defaults(config) ==
    LET c1 == SetDefault(config, K_NAME, Str("stx-node-map-prod"))
        c2 == SetDefault(c1, K_TYPE, Str("cx21"))
        c3 == SetDefault(c2, K_LOCATION, Str("nbg1"))
        c4 == SetDefault(c3, K_IMAGE, Str("ubuntu-22.04"))
        c5 == SetDefault(c4, K_FIREWALL, Str("true"))
        c6 == SetDefault(c5, K_BACKUPS, Str("false"))
    IN  c6

\* lines a settings file is made of
SampleLines ==
    { <<"HETZNER_API_TOKEN", "=", "tok">>,
      <<"HETZNER_API_TOKEN", "=", "\"", "your-api-token-here", "\"">>,
      <<"HETZNER_API_TOKEN", "=", " ">>,
      <<"HETZNER_API_TOKEN", " ", "=", "tok">>,
      <<"#", "HETZNER_API_TOKEN", "=", "tok">>,
      <<"SERVER_NAME", "=", "demo">>,
      <<"ENABLE_FIREWALL", "=", "true">>,
      <<" ", "ENABLE_FIREWALL", "=", "'", "false", "'", " ">>,
      <<"SSH_KEY_NAME", "=", "admin">>,
      <<"ENABLE_BACKUPS", "=", "True">>,
      <<"CLOUDFLARE_API_TOKEN", "=", "cf">>,
      <<"SERVER_NAME">>,
      <<" ">> }
Files == UNION {[1..n -> SampleLines] : n \in 0..MaxLines}


(* ------------------------------ API client ----------------------------- *)
\* Python None / "no id"; provider ids are positive, so 0 is never an id
NoId == 0
Ids == 1..MaxId
\* id the provider gives a newly created resource: one not yet in use
FreshId == MaxId + 1

EmptyJson == [k \in {} |-> <<>>]
HasKey(json, k) == k \in DOMAIN json

\* how one HTTP exchange can end
RespKinds == {"ok", "no_content", "http_error", "transport_error"}

\* variant: the except clause prints and returns an empty result
api_request_swallow(kind, body) ==
    IF kind = "ok" THEN [exit |-> FALSE, result |-> body]
    ELSE [exit |-> FALSE, result |-> EmptyJson]

\* HetznerAPI._request: exit on RequestException (raise_for_status or
\* transport), {} on 204, else the decoded body
api_request(kind, body) ==
    IF kind \in {"http_error", "transport_error"}
    THEN [exit |-> TRUE, result |-> EmptyJson]
    ELSE IF kind = "no_content"
         THEN [exit |-> FALSE, result |-> EmptyJson]
         ELSE [exit |-> FALSE, result |-> body]

\* variant: the scan keeps going and the last match wins
RECURSIVE find_last_by_name(_, _)
find_last_by_name(listing, name) ==
    IF listing = <<>> THEN NoId
    ELSE IF listing[Len(listing)]["name"] = name THEN listing[Len(listing)]["id"]
         ELSE find_last_by_name(SubSeq(listing, 1, Len(listing) - 1), name)

\* the for/if scan of a listing for a name: first match's id, else None
RECURSIVE find_by_name(_, _)
find_by_name(listing, name) ==
    IF listing = <<>> THEN NoId
    ELSE IF Head(listing)["name"] = name THEN Head(listing)["id"]
         ELSE find_by_name(Tail(listing), name)

\* the listing the provider sent holds an entry of that name
NameIn(listing, name) == \E i \in DOMAIN listing : listing[i]["name"] = name

\* variant: the scan starts at the second entry
find_by_name_skip_first(listing, name) ==
    IF listing = <<>> THEN NoId ELSE find_by_name(Tail(listing), name)

\* what create_firewall() finds in the listing
find_firewall(listing, name) == find_by_name(listing, name)

\* Python truthiness of an id-or-None
truthy(id) == id # NoId

\* variant: any non-empty answer counts as consent
is_yes_nonempty(answer) == answer # <<>>

\* response.lower() in ['yes', 'y']
is_yes(answer) == Lower(answer) \in {Str("yes"), Str("y")}

\* what the operator may type at a prompt before a deletion
Answers == {Str("yes"), Str("Y"), Str("no"), <<>>}
\* what the operator may type when offered a follow-on step
OfferAnswers == {Str("y"), Str("no")}

\* listings the provider may return when `name` is looked for: entries named
\* `name` or a near miss of it, ids positive and distinct
Entries(name) == [name : {name, name \o Str("-old")}, id : Ids]
Listings(name) ==
    UNION { { l \in [1..n -> Entries(name)] :
                \A i, j \in 1..n : i # j => l[i]["id"] # l[j]["id"] } : n \in 0..MaxList }

\* what _request can make of one exchange whose 2xx body is one of `bodies`
Exchange(kind, body) ==
    [kind |-> kind, exit |-> api_request(kind, body).exit,
     result |-> api_request(kind, body).result]
Outcomes(bodies) ==
    {Exchange("ok", body) : body \in bodies}
    \cup {Exchange(kind, EmptyJson) : kind \in RespKinds \ {"ok"}}
\* the exchange was a transport error or a non-2xx answer
IsFailure(kind) == kind \in {"http_error", "transport_error"}

\* command lines: argv[1:]
Argvs ==
    { <<>>, <<Str("clean")>>, <<Str("CLEAN")>>, <<Str("help")>>,
      <<Str("-h")>>, <<Str("--help")>>, <<Str("bogus"), Str("clean")>> }

\* number of status fetches wait_for_server makes before giving up
MaxTicks == 60

IPv4 == Str("203.0.113.7")
OwnIp == Str("198.51.100.9")
AnyIp == <<"0.0.0.0/0", "::/0">>

(* ------------------------------- state --------------------------------- *)
VARIABLES
    argv,                \* sys.argv[1:]
    pc,                  \* position in main()
    flow,                \* "create" or "clean" once the command is parsed
    config,              \* the settings mapping
    response,            \* the listing the last lookup received
    ssh_key_id, existing_server_id, firewall_id, server_id,
    public_ip, root_password,
    polls,               \* status fetches issued by wait_for_server
    seen_running,        \* a status fetch has observed "running"
    seen,                \* per lookup: was the name in the listing received
    failed,              \* an API exchange has ended in an error
    firewall_data,       \* body of the POST firewalls request
    server_data,         \* body of the POST servers request
    server,              \* record returned by wait_for_server
    report,              \* content of server-info.txt
    log,                 \* requests, prompts and writes, in order
    exitCode, outcome,   \* how the process ended
    calls,               \* create_firewall invocations that have returned
    first,               \* what the first of them returned, and the log and
                         \* the provider's firewalls at that moment
    provider_fw          \* the firewalls the provider holds, as it lists them

locals == <<ssh_key_id, existing_server_id, firewall_id, server_id,
            public_ip, root_password>>
outputs == <<firewall_data, server_data, server, report>>
twice == <<calls, first, provider_fw>>
vars == <<argv, pc, flow, config, response, locals, polls, seen_running, seen,
          failed, outputs, log, exitCode, outcome, twice>>

Ev(op, ep, id, ans) == [op |-> op, ep |-> ep, id |-> id, ans |-> ans]
Get_(ep)       == Ev("GET", ep, NoId, <<>>)
Post_(ep)      == Ev("POST", ep, NoId, <<>>)
Delete_(ep, id) == Ev("DELETE", ep, id, <<>>)
Prompt_(what, ans) == Ev("PROMPT", what, NoId, ans)

Goto(p) == pc' = p /\ UNCHANGED <<exitCode, outcome>>
\* sys.exit(code), or return from main (code 0), or an uncaught exception
Exit(code, why) == pc' = "exit" /\ exitCode' = code /\ outcome' = why

NoFirst == [id |-> NoId, log |-> 0, fw |-> <<>>]

Init ==
    /\ argv \in Argvs
    /\ pc = "start"
    /\ flow = "none"
    /\ config = EmptyConfig
    /\ response = <<>>
    /\ ssh_key_id = NoId /\ existing_server_id = NoId
    /\ firewall_id = NoId /\ server_id = NoId
    /\ public_ip = <<>> /\ root_password = <<>>
    /\ polls = 0 /\ seen_running = FALSE
    /\ seen = [k \in {} |-> FALSE]
    /\ failed = FALSE
    /\ firewall_data = EmptyJson /\ server_data = EmptyJson
    /\ server = EmptyJson /\ report = EmptyJson
    /\ log = <<>>
    /\ exitCode = 0 /\ outcome = "running"
    /\ calls = 0 /\ first = NoFirst /\ provider_fw = <<>>

\* variant: the unknown-command branch ends like a success
usage_exit_zero == 1 - 1

\* exit status of the unknown-command branch
usage_exit == 1

\* main(): command dispatch on sys.argv[1].lower()
ParseCommand ==
    /\ pc = "start"
    /\ UNCHANGED <<failed, seen, argv, config, response, locals, polls, seen_running, outputs, log, twice>>
    /\ IF Len(argv) > 0
       THEN LET command == Lower(argv[1]) IN
            IF command = Str("clean")
            THEN flow' = "clean" /\ Goto("load")
            ELSE IF command \in {Str("help"), Str("-h"), Str("--help")}
                 THEN flow' = "help" /\ Exit(0, "help")
                 ELSE flow' = "unknown" /\ Exit(usage_exit, "unknown_command")
       ELSE flow' = "create" /\ Goto("load")

\* load_config(): the file is missing, or is parsed
LoadConfig ==
    /\ pc = "load"
    /\ UNCHANGED <<failed, seen, argv, flow, response, locals, polls, seen_running, outputs, log, twice>>
    /\ \E exists \in BOOLEAN :
         IF ~exists
         THEN config' = config /\ Exit(1, "no_config_file")
         ELSE \E file \in Files : config' = load_config(file) /\ Goto("validate")

\* validate_config(): reject, or fill the defaults
ValidateConfig ==
    /\ pc = "validate"
    /\ UNCHANGED <<failed, seen, argv, flow, response, locals, polls, seen_running, outputs, log, twice>>
    /\ IF validate_rejects(config)
       THEN config' = config /\ Exit(1, "token_not_set")
       ELSE /\ config' = apply_defaults(config)
            /\ Goto(IF flow = "clean" THEN "clean_servers" ELSE "print_config")

\* main() lines 455-463: the configuration banner indexes SSH_KEY_NAME
PrintConfig ==
    /\ pc = "print_config"
    /\ UNCHANGED <<failed, seen, argv, flow, config, response, locals, polls, seen_running, outputs, log, twice>>
    /\ IF K_SSH \in DOMAIN config
       THEN Goto("step1")
       ELSE Exit(1, "keyerror_config")

\* get_ssh_key_id(): list, scan, exit when the name is absent
GetSshKeyId ==
    /\ pc = "step1"
    /\ UNCHANGED <<argv, flow, config, existing_server_id, firewall_id, server_id,
                   public_ip, root_password, polls, seen_running, outputs, twice>>
    /\ log' = Append(log, Get_("ssh_keys"))
    /\ \E r \in Outcomes({[ssh_keys |-> listing] : listing \in Listings(config[K_SSH])}) :
         /\ failed' = IsFailure(r.kind)
         /\ IF r.exit
            THEN Exit(1, "api_error") /\ UNCHANGED <<response, ssh_key_id, seen>>
            ELSE IF ~HasKey(r.result, "ssh_keys")
            THEN Exit(1, "keyerror_response") /\ UNCHANGED <<response, ssh_key_id, seen>>
            ELSE LET id == find_by_name(r.result.ssh_keys, config[K_SSH]) IN
                 /\ response' = r.result.ssh_keys
                 /\ seen' = Put(seen, "ssh_keys", NameIn(r.result.ssh_keys, config[K_SSH]))
                 /\ IF id # NoId
                    THEN ssh_key_id' = id /\ Goto("step2")
                    ELSE ssh_key_id' = ssh_key_id /\ Exit(1, "ssh_key_not_found")

\* check_existing_server(): list, scan, id or None; main() branches on it
CheckExistingServer ==
    /\ pc = "step2"
    /\ UNCHANGED <<argv, flow, config, ssh_key_id, firewall_id, server_id,
                   public_ip, root_password, polls, seen_running, outputs, twice>>
    /\ log' = Append(log, Get_("servers"))
    /\ \E r \in Outcomes({[servers |-> listing] : listing \in Listings(config[K_NAME])}) :
         /\ failed' = IsFailure(r.kind)
         /\ IF r.exit
            THEN Exit(1, "api_error") /\ UNCHANGED <<response, existing_server_id, seen>>
            ELSE IF ~HasKey(r.result, "servers")
            THEN Exit(1, "keyerror_response") /\ UNCHANGED <<response, existing_server_id, seen>>
            ELSE LET id == find_by_name(r.result.servers, config[K_NAME]) IN
                 /\ response' = r.result.servers
                 /\ seen' = Put(seen, "servers", NameIn(r.result.servers, config[K_NAME]))
                 /\ existing_server_id' = id
                 /\ Goto(IF truthy(id) THEN "confirm_replace" ELSE "step3")

\* variant: a refusal is ignored and the run goes on
decline_continue == "step3"

\* where main() goes when the operator declines to replace the server
decline_replace == "exit"

\* main() lines 478-487: the prompt before deleting the existing server
ConfirmReplace ==
    /\ pc = "confirm_replace"
    /\ UNCHANGED <<failed, seen, argv, flow, config, response, locals, polls, seen_running,
                   outputs, twice>>
    /\ \E answer \in Answers :
         /\ log' = Append(log, Prompt_("replace-server", answer))
         /\ IF is_yes(answer)
            THEN Goto("delete_existing")
            ELSE IF decline_replace = "exit"
                 THEN Exit(0, "aborted")
                 ELSE Goto(decline_replace)

\* main() line 482: api.delete of the existing server
DeleteExisting ==
    /\ pc = "delete_existing"
    /\ UNCHANGED <<seen, argv, flow, config, locals, polls, seen_running, outputs, twice>>
    /\ log' = Append(log, Delete_("servers", existing_server_id))
    /\ response' = <<>>
    /\ \E r \in Outcomes({EmptyJson}) :
         /\ failed' = IsFailure(r.kind)
         /\ IF r.exit
            THEN Exit(1, "api_error")
            ELSE Goto("step3")

\* main() lines 490-496: firewall wanted or not
Step3 ==
    /\ pc = "step3"
    /\ UNCHANGED <<failed, seen, argv, flow, config, response, locals, polls, seen_running,
                   outputs, log, twice>>
    /\ IF Lower(config[K_FIREWALL]) = Str("true")
       THEN Goto("fw_list")
       ELSE Goto("step4")

firewall_name == config[K_NAME] \o Str("-firewall")

\* create_firewall() lines 146-150 against the listing the provider returns
create_firewall_lookup(r) ==
    /\ pc = "fw_list"
    /\ UNCHANGED <<argv, flow, config, ssh_key_id, existing_server_id, server_id,
                   public_ip, root_password, polls, seen_running, outputs>>
    /\ log' = Append(log, Get_("firewalls"))
    /\   /\ failed' = IsFailure(r.kind)
         /\ IF r.exit
            THEN Exit(1, "api_error") /\ UNCHANGED <<response, firewall_id, seen>>
            ELSE IF ~HasKey(r.result, "firewalls")
            THEN Exit(1, "keyerror_response") /\ UNCHANGED <<response, firewall_id, seen>>
            ELSE LET id == find_firewall(r.result.firewalls, firewall_name) IN
                 /\ response' = r.result.firewalls
                 /\ seen' = Put(seen, "firewalls", NameIn(r.result.firewalls, firewall_name))
                 /\ IF id # NoId
                    THEN firewall_id' = id /\ Goto("step4")
                    ELSE firewall_id' = firewall_id /\ Goto("fw_ip")

FwList ==
    /\ pc = "fw_list"
    /\ \E r \in Outcomes({[firewalls |-> listing] : listing \in Listings(firewall_name)}) :
         create_firewall_lookup(r)
    /\ UNCHANGED twice

\* get_public_ip(): the echo service answers, or any failure gives None
FwGetPublicIp ==
    /\ pc = "fw_ip"
    /\ UNCHANGED <<failed, seen, argv, flow, config, response, ssh_key_id, existing_server_id,
                   firewall_id, server_id, root_password, polls, seen_running,
                   outputs, twice>>
    /\ log' = Append(log, Get_("ipify"))
    /\ \E ip \in {OwnIp, <<>>} : public_ip' = ip
    /\ Goto("fw_post")

\* the rule set create_firewall() posts
firewall_rules(ip) ==
    LET ssh_source_ips == IF ip # <<>> THEN <<ip \o Str("/32")>> ELSE AnyIp IN
    << [direction |-> "in",  protocol |-> "tcp", port |-> "22",    ips |-> ssh_source_ips],
       [direction |-> "in",  protocol |-> "tcp", port |-> "443",   ips |-> AnyIp],
       [direction |-> "out", protocol |-> "tcp", port |-> "80",    ips |-> AnyIp],
       [direction |-> "out", protocol |-> "tcp", port |-> "443",   ips |-> AnyIp],
       [direction |-> "out", protocol |-> "tcp", port |-> "20443", ips |-> AnyIp],
       [direction |-> "out", protocol |-> "tcp", port |-> "20444", ips |-> AnyIp] >>

\* create_firewall() lines 160-213: post the firewall, return its id
create_firewall_post(r) ==
    /\ pc = "fw_post"
    /\ UNCHANGED <<seen, argv, flow, config, ssh_key_id, existing_server_id, server_id,
                   public_ip, root_password, polls, seen_running,
                   server_data, server, report>>
    /\ log' = Append(log, Post_("firewalls"))
    /\ firewall_data' = [name |-> firewall_name, rules |-> firewall_rules(public_ip)]
    /\ response' = <<>>
    /\   /\ failed' = IsFailure(r.kind)
         /\ IF r.exit
            THEN Exit(1, "api_error") /\ UNCHANGED firewall_id
            ELSE IF ~HasKey(r.result, "firewall")
            THEN Exit(1, "keyerror_response") /\ UNCHANGED firewall_id
            ELSE firewall_id' = r.result.firewall.id /\ Goto("step4")

FwPost ==
    /\ pc = "fw_post"
    /\ \E r \in Outcomes({[firewall |-> [id |-> FreshId]]}) : create_firewall_post(r)
    /\ UNCHANGED twice

\* the request body create_server() builds
build_server_data(cfg, key_id, fw_id) ==
    [ name |-> cfg[K_NAME], server_type |-> cfg[K_TYPE],
      location |-> cfg[K_LOCATION], image |-> cfg[K_IMAGE],
      ssh_keys |-> <<key_id>>, start_after_create |-> TRUE,
      public_net |-> [enable_ipv4 |-> TRUE, enable_ipv6 |-> TRUE] ]
    @@ (IF Lower(cfg[K_BACKUPS]) = Str("true") THEN [backups |-> TRUE] ELSE EmptyJson)
    @@ (IF truthy(fw_id) THEN [firewalls |-> <<[firewall |-> fw_id]>>] ELSE EmptyJson)

\* bodies a 2xx answer to POST servers may carry
ServerCreated ==
    { [server |-> [id |-> FreshId]],
      [server |-> [id |-> FreshId], root_password |-> Str("pw")],
      [error |-> Str("uniqueness_error")] }

\* create_server() and main() lines 500-505
CreateServer ==
    /\ pc = "step4"
    /\ calls = 0
    /\ UNCHANGED <<seen, argv, flow, config, ssh_key_id, existing_server_id, firewall_id,
                   public_ip, polls, seen_running, firewall_data, server, report,
                   twice>>
    /\ log' = Append(log, Post_("servers"))
    /\ server_data' = build_server_data(config, ssh_key_id, firewall_id)
    /\ response' = <<>>
    /\ \E r \in Outcomes(ServerCreated) :
         /\ failed' = IsFailure(r.kind)
         /\ IF r.exit
            THEN Exit(1, "api_error") /\ UNCHANGED <<server_id, root_password>>
            ELSE IF HasKey(r.result, "error")
            THEN Exit(1, "create_error") /\ UNCHANGED <<server_id, root_password>>
            ELSE IF ~HasKey(r.result, "server")
            THEN Exit(1, "keyerror_response") /\ UNCHANGED <<server_id, root_password>>
            ELSE /\ server_id' = r.result.server.id
                 /\ root_password' = Get(r.result, "root_password", <<>>)
                 /\ Goto("poll")

\* variant: any status but the initial one counts as ready
is_running_not_initializing(status) == status # "initializing"

\* the status test of wait_for_server()
is_running(status) == status = "running"

Statuses == {"initializing", "starting", "off", "running"}
\* dual-stack networking is requested, so the record carries both addresses
PublicNets == { [ipv4 |-> [ip |-> IPv4], ipv6 |-> [ip |-> Str("2001:db8::1")]] }

\* records the provider may return for the server just created
ServerRecords ==
    [id : {server_id}, name : {server_data.name}, status : Statuses,
     public_net : PublicNets]

\* wait_for_server(): one pass of the loop body
PollServer ==
    /\ pc = "poll"
    /\ polls < MaxTicks
    /\ UNCHANGED <<seen, argv, flow, config, response, locals, firewall_data,
                   server_data, report, log, twice>>
    /\ polls' = polls + 1
    /\ \E r \in Outcomes({[server |-> record] : record \in ServerRecords}) :
         /\ failed' = IsFailure(r.kind)
         /\ IF r.exit
            THEN Exit(1, "api_error") /\ UNCHANGED <<server, seen_running>>
            ELSE IF ~HasKey(r.result, "server")
            THEN Exit(1, "keyerror_response") /\ UNCHANGED <<server, seen_running>>
            ELSE /\ seen_running' = (seen_running \/ r.result.server.status = "running")
                 /\ IF is_running(r.result.server.status)
                    THEN server' = r.result.server /\ Goto("save")
                    ELSE server' = server /\ Goto("poll")

\* wait_for_server(): the loop ran out
PollTimeout ==
    /\ pc = "poll"
    /\ polls >= MaxTicks
    /\ UNCHANGED <<failed, seen, argv, flow, config, response, locals, polls, seen_running,
                   outputs, log, twice>>
    /\ Exit(1, "timeout")

\* the fields save_server_info() renders (the timestamp left out)
render_report(cfg, srv, password, fw_id) ==
    [ name |-> srv.name, id |-> srv.id, status |-> srv.status,
      type |-> cfg[K_TYPE], location |-> cfg[K_LOCATION], image |-> cfg[K_IMAGE],
      ipv4 |-> srv.public_net.ipv4.ip,
      ipv6 |-> IF HasKey(srv.public_net, "ipv6")
               THEN srv.public_net.ipv6.ip ELSE Str("N/A"),
      ssh_key_name |-> Get(cfg, K_SSH, Str("admin")),
      root_password |-> IF password # <<>> THEN password ELSE Str("(using SSH key)"),
      firewall |-> IF truthy(fw_id) THEN fw_id ELSE NoId,
      domain |-> Get(cfg, K_DOMAIN, Str("your-domain.com")) ]

\* save_server_info()
SaveServerInfo ==
    /\ pc = "save"
    /\ UNCHANGED <<failed, seen, argv, flow, config, response, locals, polls, seen_running,
                   firewall_data, server_data, server, twice>>
    /\ report' = render_report(config, server, root_password, firewall_id)
    /\ log' = Append(log, Ev("WRITE", "server-info.txt", NoId, <<>>))
    /\ Goto("offer_copy")

\* main() lines 526-536: offer to copy the deployment files
OfferCopy ==
    /\ pc = "offer_copy"
    /\ UNCHANGED <<failed, seen, argv, flow, config, response, locals, polls, seen_running,
                   outputs, twice>>
    /\ \E answer \in OfferAnswers :
         log' = IF is_yes(answer)
                THEN log \o <<Prompt_("copy-files", answer), Ev("RUN", "scp", NoId, <<>>)>>
                ELSE Append(log, Prompt_("copy-files", answer))
    /\ Goto("offer_ssl")

\* main() lines 540-570: offer the SSL setup, then return
OfferSsl ==
    /\ pc = "offer_ssl"
    /\ UNCHANGED <<failed, seen, argv, flow, config, response, locals, polls, seen_running,
                   outputs, twice>>
    /\ LET cloudflare_token == Get(config, K_CF, <<>>) IN
       IF cloudflare_token # <<>> /\ cloudflare_token # CfPlaceholder
       THEN \E answer \in OfferAnswers :
              log' = IF is_yes(answer)
                     THEN log \o <<Prompt_("setup-ssl", answer),
                                   Ev("RUN", "03-setup-ssl.sh", NoId, <<>>)>>
                     ELSE Append(log, Prompt_("setup-ssl", answer))
       ELSE log' = log
    /\ Exit(0, "created")

\* variant: clean_resources() returns once the server step is over
after_server_step_return == "exit"

\* where clean_resources() goes once the server step is over
after_server_step == "clean_firewalls"

\* clean_resources() lines 378-396: find the server
CleanFindServer ==
    /\ pc = "clean_servers"
    /\ UNCHANGED <<argv, flow, config, ssh_key_id, existing_server_id, firewall_id,
                   public_ip, root_password, polls, seen_running, outputs, twice>>
    /\ log' = Append(log, Get_("servers"))
    /\ \E r \in Outcomes({[servers |-> listing] : listing \in Listings(config[K_NAME])}) :
         /\ failed' = IsFailure(r.kind)
         /\ IF r.exit
            THEN Exit(1, "api_error") /\ UNCHANGED <<response, server_id, seen>>
            ELSE IF ~HasKey(r.result, "servers")
            THEN Exit(1, "keyerror_response") /\ UNCHANGED <<response, server_id, seen>>
            ELSE LET id == find_by_name(r.result.servers, config[K_NAME]) IN
                 /\ response' = r.result.servers
                 /\ seen' = Put(seen, "servers", NameIn(r.result.servers, config[K_NAME]))
                 /\ server_id' = id
                 /\ Goto(IF truthy(id) THEN "clean_confirm_server" ELSE after_server_step)

\* clean_resources() lines 388-394: ask before deleting the server
CleanConfirmServer ==
    /\ pc = "clean_confirm_server"
    /\ UNCHANGED <<failed, seen, argv, flow, config, response, locals, polls, seen_running,
                   outputs, twice>>
    /\ \E answer \in Answers :
         /\ log' = Append(log, Prompt_("delete-server", answer))
         /\ IF is_yes(answer)
            THEN Goto("clean_delete_server")
            ELSE Goto(after_server_step)

\* clean_resources() line 390
CleanDeleteServer ==
    /\ pc = "clean_delete_server"
    /\ UNCHANGED <<seen, argv, flow, config, locals, polls, seen_running, outputs, twice>>
    /\ log' = Append(log, Delete_("servers", server_id))
    /\ response' = <<>>
    /\ \E r \in Outcomes({EmptyJson}) :
         /\ failed' = IsFailure(r.kind)
         /\ IF r.exit
            THEN Exit(1, "api_error")
            ELSE Goto(after_server_step)

\* clean_resources() lines 401-418: find the firewall
CleanFindFirewall ==
    /\ pc = "clean_firewalls"
    /\ UNCHANGED <<argv, flow, config, ssh_key_id, existing_server_id, server_id,
                   public_ip, root_password, polls, seen_running, outputs, twice>>
    /\ log' = Append(log, Get_("firewalls"))
    /\ \E r \in Outcomes({[firewalls |-> listing] : listing \in Listings(firewall_name)}) :
         /\ failed' = IsFailure(r.kind)
         /\ IF r.exit
            THEN Exit(1, "api_error") /\ UNCHANGED <<response, firewall_id, seen>>
            ELSE IF ~HasKey(r.result, "firewalls")
            THEN Exit(1, "keyerror_response") /\ UNCHANGED <<response, firewall_id, seen>>
            ELSE LET id == find_by_name(r.result.firewalls, firewall_name) IN
                 /\ response' = r.result.firewalls
                 /\ seen' = Put(seen, "firewalls", NameIn(r.result.firewalls, firewall_name))
                 /\ firewall_id' = id
                 /\ IF truthy(id)
                    THEN Goto("clean_confirm_firewall")
                    ELSE Exit(0, "cleaned")

\* clean_resources() lines 411-416: ask before deleting the firewall
CleanConfirmFirewall ==
    /\ pc = "clean_confirm_firewall"
    /\ UNCHANGED <<failed, seen, argv, flow, config, response, locals, polls, seen_running,
                   outputs, twice>>
    /\ \E answer \in Answers :
         /\ log' = Append(log, Prompt_("delete-firewall", answer))
         /\ IF is_yes(answer)
            THEN Goto("clean_delete_firewall")
            ELSE Exit(0, "cleaned")

\* clean_resources() line 413, then return to main()
CleanDeleteFirewall ==
    /\ pc = "clean_delete_firewall"
    /\ UNCHANGED <<seen, argv, flow, config, locals, polls, seen_running, outputs, twice>>
    /\ log' = Append(log, Delete_("firewalls", firewall_id))
    /\ response' = <<>>
    /\ \E r \in Outcomes({EmptyJson}) :
         /\ failed' = IsFailure(r.kind)
         /\ IF r.exit
            THEN Exit(1, "api_error")
            ELSE Exit(0, "cleaned")

Next ==
    \/ ParseCommand \/ LoadConfig \/ ValidateConfig \/ PrintConfig
    \/ GetSshKeyId \/ CheckExistingServer \/ ConfirmReplace \/ DeleteExisting
    \/ Step3 \/ FwList \/ FwGetPublicIp \/ FwPost \/ CreateServer
    \/ PollServer \/ PollTimeout \/ SaveServerInfo \/ OfferCopy \/ OfferSsl
    \/ CleanFindServer \/ CleanConfirmServer \/ CleanDeleteServer
    \/ CleanFindFirewall \/ CleanConfirmFirewall \/ CleanDeleteFirewall
Spec == Init /\ [][Next]_vars

(* ------------- create_firewall() invoked twice in a row ---------------- *)
\* settings with which main() reaches Step 3 and wants a firewall
Step3Configs ==
    { apply_defaults(load_config(file)) : file \in
        { f \in Files : /\ ~validate_rejects(load_config(f))
                        /\ K_SSH \in DOMAIN load_config(f)
                        /\ Lower(apply_defaults(load_config(f))[K_FIREWALL]) = Str("true") } }

\* l with entry e put before position i
InsertAt(l, i, e) == SubSeq(l, 1, i - 1) \o <<e>> \o SubSeq(l, i, Len(l))

TwiceInit ==
    /\ argv = <<>> /\ flow = "create" /\ pc = "fw_list"
    /\ config \in Step3Configs
    /\ provider_fw \in Listings(config[K_NAME] \o Str("-firewall"))
    /\ response = <<>>
    /\ ssh_key_id = 1 /\ existing_server_id = NoId
    /\ firewall_id = NoId /\ server_id = NoId
    /\ public_ip = <<>> /\ root_password = <<>>
    /\ polls = 0 /\ seen_running = FALSE
    /\ seen = [k \in {} |-> FALSE]
    /\ failed = FALSE
    /\ firewall_data = EmptyJson /\ server_data = EmptyJson
    /\ server = EmptyJson /\ report = EmptyJson
    /\ log = <<>>
    /\ exitCode = 0 /\ outcome = "running"
    /\ calls = 0 /\ first = NoFirst

\* the lookup, answered from what the provider holds
TwiceLookup ==
    /\ pc = "fw_list"
    /\ \E r \in Outcomes({[firewalls |-> provider_fw]}) : create_firewall_lookup(r)
    /\ UNCHANGED twice

\* the post; on success the provider holds the new firewall, listed anywhere
TwicePost ==
    /\ pc = "fw_post"
    /\ \E r \in Outcomes({[firewall |-> [id |-> FreshId]]}) :
         /\ create_firewall_post(r)
         /\ IF r.kind = "ok"
            THEN \E i \in 1..(Len(provider_fw) + 1) :
                   provider_fw' =
                     InsertAt(provider_fw, i, [name |-> firewall_name, id |-> FreshId])
            ELSE provider_fw' = provider_fw
    /\ UNCHANGED <<calls, first>>

\* create_firewall() has returned: note the result, and invoke it once more
TwiceReturn ==
    /\ pc = "step4"
    /\ calls < 2
    /\ UNCHANGED <<failed, seen, argv, flow, config, response, locals, polls,
                   seen_running, outputs, log, exitCode, outcome, provider_fw>>
    /\ calls' = calls + 1
    /\ first' = IF calls = 0
                THEN [id |-> firewall_id, log |-> Len(log), fw |-> provider_fw]
                ELSE first
    /\ pc' = IF calls = 0 THEN "fw_list" ELSE "step4"

TwiceNext == TwiceLookup \/ FwGetPublicIp \/ TwicePost \/ TwiceReturn
SpecTwice == TwiceInit /\ [][TwiceNext]_vars

(* ------------------------------ properties ----------------------------- *)
IsRequest(e) == e.op \in {"GET", "POST", "DELETE"}
\* network calls issued so far (status fetches are counted in polls)
Requests == Len(SelectSeq(log, IsRequest)) + polls
HasEv(op, ep) == \E i \in DOMAIN log : log[i].op = op /\ log[i].ep = ep
\* the settings lack a usable token
TokenUnset(cfg) ==
    \/ K_TOKEN \notin DOMAIN cfg
    \/ cfg[K_TOKEN] = <<>>
    \/ cfg[K_TOKEN] = Str("your-api-token-here")

\* C1: once the settings file is read, a run (create or clean) whose settings
\* lack the token, or hold an empty or the placeholder token, has issued no
\* network call, and is either about to validate or has ended non-zero.
C1_NoNetworkWithoutToken ==
    (flow \in {"create", "clean"} /\ pc \notin {"start", "load"} /\ TokenUnset(config))
        => /\ Requests = 0
           /\ pc = "validate" \/ (pc = "exit" /\ exitCode # 0)

\* a clean run that ended on a quoted placeholder token
C1_Witness ==
    /\ flow = "clean" /\ pc = "exit" /\ exitCode = 1 /\ Requests = 0
    /\ K_TOKEN \in DOMAIN config /\ config[K_TOKEN] = Str("your-api-token-here")

\* C2: when create_firewall is invoked again with the same name against the
\* provider's listing as the first invocation left it, the second invocation
\* issues a single GET firewalls and nothing else, leaves the provider's
\* firewalls as they were, and returns the id the first returned.
C2_SecondInvocationCreatesNothing ==
    /\ calls >= 1 =>
         /\ \A i \in (first.log + 1)..Len(log) : log[i] = Get_("firewalls")
         /\ Len(log) <= first.log + 1
         /\ provider_fw = first.fw
         /\ pc \notin {"fw_ip", "fw_post"}
    /\ calls = 2 => firewall_id = first.id /\ Len(log) = first.log + 1

\* both invocations returned, the first having created the firewall
C2_Witness ==
    /\ calls = 2 /\ HasEv("POST", "firewalls")
    /\ first.id = FreshId /\ firewall_id = FreshId /\ Len(provider_fw) > 1

\* C3: wait_for_server leaves its loop at the first status fetch that observes
\* "running", returning that record, and fetches no more; when no fetch
\* observes "running" it ends the process non-zero after exactly 60 fetches.
C3_PollerStopsAtRunningOrSixty ==
    /\ pc = "poll" => ~seen_running /\ polls <= 60
    /\ pc \in {"save", "offer_copy", "offer_ssl"} \/ outcome = "created"
         => /\ seen_running
            /\ server.status = "running" /\ server.id = server_id
            /\ polls \in 1..60
    /\ outcome = "timeout"
         => ~seen_running /\ polls = 60 /\ pc = "exit" /\ exitCode # 0
    /\ ~seen_running /\ polls < 60 => outcome # "timeout"

\* the budget ran out: sixty fetches, none saw "running"
C3_Witness == outcome = "timeout" /\ polls = 60 /\ ~seen_running /\ exitCode = 1

(* ---- the operator's answers and the lookups, as the claims see them ---- *)
Affirmative(ans) == ans \in {Str("yes"), Str("y"), Str("YES"), Str("Y"), Str("Yes")}
Prompted(what) == HasEv("PROMPT", what)
SaidYes(what) ==
    \E i \in DOMAIN log :
        log[i].op = "PROMPT" /\ log[i].ep = what /\ Affirmative(log[i].ans)
Looked(ep) == ep \in DOMAIN seen
Found(ep) == ep \in DOMAIN seen /\ seen[ep]
\* some op/ep event precedes every op2/ep2 event
Before(op, ep, op2, ep2) ==
    \A j \in DOMAIN log :
        (log[j].op = op2 /\ log[j].ep = ep2)
            => \E i \in 1..(j - 1) : log[i].op = op /\ log[i].ep = ep
LastEv == log[Len(log)]

\* C4: in the clean flow a resource's prompt is shown exactly when the resource
\* was found in its listing, and its DELETE is issued exactly when it was found
\* and the operator said yes; with neither found the run shows no prompt,
\* issues no DELETE and ends with exit code 0.
C4_PromptIffFoundDeleteIffYes ==
    flow = "clean" =>
        /\ Prompted("delete-server")
              <=> (Found("servers") /\ pc # "clean_confirm_server")
        /\ HasEv("DELETE", "servers")
              <=> (SaidYes("delete-server") /\ pc # "clean_delete_server")
        /\ Prompted("delete-firewall")
              <=> (Found("firewalls") /\ pc # "clean_confirm_firewall")
        /\ HasEv("DELETE", "firewalls")
              <=> (SaidYes("delete-firewall") /\ pc # "clean_delete_firewall")
        /\ \A i \in DOMAIN log : log[i].op = "DELETE" => log[i].id # NoId
        /\ (Looked("servers") /\ Looked("firewalls")
                /\ ~Found("servers") /\ ~Found("firewalls"))
              => /\ log = <<Get_("servers"), Get_("firewalls")>>
                 /\ pc = "exit" /\ exitCode = 0

\* server found and deleted on a yes, firewall found and kept on a no
C4_Witness ==
    /\ flow = "clean" /\ outcome = "cleaned"
    /\ HasEv("DELETE", "servers")
    /\ Prompted("delete-firewall") /\ ~HasEv("DELETE", "firewalls")

ServerStepOver ==
    /\ Looked("servers")
    /\ \/ ~Found("servers")
       \/ Prompted("delete-server") /\ ~SaidYes("delete-server")
       \/ HasEv("DELETE", "servers")

\* C5: in the clean flow every server-step event precedes every firewall-step
\* event, the firewall lookup is issued only once the server lookup is done and
\* the server DELETE (if consented to) is issued, and the firewall step follows
\* also when the server was not found or its deletion was declined.
C5_ServerStepBeforeFirewallStep ==
    flow = "clean" =>
        /\ \A i, j \in DOMAIN log :
              (/\ log[i].ep \in {"servers", "delete-server"}
               /\ log[j].ep \in {"firewalls", "delete-firewall"}) => i < j
        /\ HasEv("GET", "firewalls")
              => /\ Looked("servers")
                 /\ SaidYes("delete-server") => HasEv("DELETE", "servers")
        /\ (ServerStepOver /\ ~failed)
              => \/ pc \in {"clean_firewalls", "clean_confirm_firewall",
                            "clean_delete_firewall"}
                 \/ HasEv("GET", "firewalls")
        /\ (pc = "exit" /\ exitCode = 0) => HasEv("GET", "firewalls")

\* the server's deletion was declined and the firewall was deleted all the same
C5_Witness ==
    /\ flow = "clean" /\ Prompted("delete-server") /\ ~SaidYes("delete-server")
    /\ HasEv("DELETE", "firewalls") /\ outcome = "cleaned"

\* C6: in the create flow the existing server is deleted only after a yes to
\* the prompt, every create request comes after that DELETE, and a refusal ends
\* the run with exit code 0, no DELETE and no POST.
C6_ReplaceOnlyAfterConsent ==
    flow = "create" =>
        /\ Prompted("replace-server") => Found("servers")
        /\ HasEv("DELETE", "servers") => SaidYes("replace-server")
        /\ Before("PROMPT", "replace-server", "DELETE", "servers")
        /\ Found("servers")
              => /\ Before("DELETE", "servers", "POST", "servers")
                 /\ Before("DELETE", "servers", "POST", "firewalls")
        /\ (Prompted("replace-server") /\ ~SaidYes("replace-server"))
              => /\ pc = "exit" /\ exitCode = 0
                 /\ \A i \in DOMAIN log : log[i].op \notin {"DELETE", "POST"}

\* consent given, the old server deleted, the new one requested
C6_Witness ==
    /\ flow = "create" /\ Found("servers") /\ SaidYes("replace-server")
    /\ HasEv("DELETE", "servers") /\ HasEv("POST", "servers")

Commands == {Str("clean"), Str("help"), Str("-h"), Str("--help")}
\* what C7 says of every exit but the unknown-command one
ExitCodeFollowsOutcome ==
    /\ exitCode \in {0, 1}
    /\ exitCode = 0 <=> outcome \in {"created", "cleaned", "help", "aborted"}
    /\ outcome = "created" <=> (flow = "create" /\ HasEv("WRITE", "server-info.txt"))
    /\ outcome = "aborted"
          <=> (flow = "create" /\ Prompted("replace-server") /\ ~SaidYes("replace-server"))
    /\ outcome = "help" <=> flow = "help"
    /\ outcome = "cleaned" => flow = "clean" /\ Looked("firewalls") /\ ~failed
    /\ failed => exitCode # 0
    /\ (flow \in {"create", "clean"} /\ TokenUnset(config)) => exitCode # 0
    /\ (Looked("ssh_keys") /\ ~Found("ssh_keys")) => exitCode # 0
    /\ (polls = 60 /\ ~seen_running) => exitCode # 0

\* C7, amended: a run ends with exit code 0 exactly when it completes (create,
\* clean, help) or the operator declines the replacement, and non-zero on every
\* validation failure, API error, timeout, missing SSH key, and on every first
\* argument that, lowercased, is none of clean, help, -h, --help.
C7_ExitCodes ==
    pc = "exit" =>
        /\ ExitCodeFollowsOutcome
        /\ (Len(argv) > 0 /\ Lower(argv[1]) \notin Commands) => exitCode # 0

\* C7 as stated: every first argument other than clean, help, -h, --help, as
\* typed, ends the run non-zero.
C7_AsStated ==
    pc = "exit" =>
        /\ ExitCodeFollowsOutcome
        /\ (Len(argv) > 0 /\ argv[1] \notin Commands) => exitCode # 0

\* an unknown command ended the run non-zero
C7_Witness ==
    /\ pc = "exit" /\ Len(argv) > 0 /\ Lower(argv[1]) \notin Commands
    /\ exitCode = 1 /\ outcome = "unknown_command"

\* C8: an API exchange that fails ends the process there and then, non-zero;
\* no request is issued twice; a terminated run takes no further step; and a
\* 204 is no failure and gives the empty result.
C8_FailFastNoRetry ==
    /\ failed => /\ pc = "exit" /\ exitCode # 0 /\ outcome = "api_error"
                 /\ polls > 0 \/ IsRequest(LastEv)
    /\ \A i, j \in DOMAIN log : (i # j /\ IsRequest(log[i])) => log[i] # log[j]
    /\ pc = "exit" => ~ENABLED Next
    /\ \A body \in {EmptyJson, [servers |-> <<>>]} :
          api_request("no_content", body) = [exit |-> FALSE, result |-> EmptyJson]

\* the DELETE of the existing server failed, after three requests went through
C8_Witness ==
    /\ failed /\ pc = "exit" /\ exitCode = 1
    /\ Len(log) = 3 /\ LastEv.op = "DELETE"

\* the settings file of the example: token, server name, firewall toggle
ScenarioFile ==
    << <<"HETZNER_API_TOKEN", "=", "tok">>,
       <<"SERVER_NAME", "=", "demo">>,
       <<"ENABLE_FIREWALL", "=", "true">> >>
ScenarioConfig == apply_defaults(load_config(ScenarioFile))
\* so far the provider has answered as the example says: no failure, the SSH
\* key found with id 1, no server and no firewall of the name, "running" seen
\* by the first status fetch
EnvAsScenario ==
    /\ ~failed /\ outcome \notin {"keyerror_response", "create_error"}
    /\ Looked("ssh_keys") => Found("ssh_keys") /\ ssh_key_id = 1
    /\ Looked("servers") => ~Found("servers")
    /\ Looked("firewalls") => ~Found("firewalls")
    /\ polls <= 1 /\ (polls = 1 => seen_running)

\* C9: a create run on the example's settings, answered by the provider as in
\* the example, ends only after it has created the firewall with the fixed
\* rules, then the server with SSH key 1 and the new firewall, seen "running"
\* on the first fetch, and then written a report with name demo and the IPv4.
C9_ScenarioRunsToReport ==
    (flow = "create" /\ config = ScenarioConfig /\ pc = "exit" /\ EnvAsScenario)
        => /\ outcome = "created"
           /\ firewall_data = [name |-> <<"demo", "-firewall">>,
                               rules |-> firewall_rules(public_ip)]
           /\ server_data.ssh_keys = <<1>>
           /\ server_data.firewalls = <<[firewall |-> FreshId]>>
           /\ polls = 1
           /\ Before("POST", "firewalls", "POST", "servers")
           /\ Before("POST", "servers", "WRITE", "server-info.txt")
           /\ report.name = Str("demo") /\ report.ipv4 = IPv4

\* the id of the first entry of that name, by position
FirstMatch(listing, name) ==
    IF \E i \in DOMAIN listing : listing[i]["name"] = name
    THEN listing[CHOOSE i \in DOMAIN listing :
                    /\ listing[i]["name"] = name
                    /\ \A j \in 1..(i - 1) : listing[j]["name"] # name]["id"]
    ELSE NoId
JustListed(ep) == log # <<>> /\ LastEv = Get_(ep) /\ Looked(ep)

\* C10: each lookup yields the id of the first listed entry of exactly the
\* requested name; with no such entry the server and firewall lookups yield
\* "not found" and the run goes on (or completes), while the SSH key lookup
\* ends the run non-zero with no create or delete request issued.
C10_LookupFirstExactMatch ==
    /\ JustListed("ssh_keys") =>
          LET id == FirstMatch(response, config[K_SSH]) IN
          IF id = NoId
          THEN pc = "exit" /\ exitCode # 0
          ELSE ssh_key_id = id /\ pc = "step2"
    /\ JustListed("servers") =>
          LET id == FirstMatch(response, config[K_NAME]) IN
          /\ id = IF flow = "create" THEN existing_server_id ELSE server_id
          /\ id = NoId => pc # "exit"
    /\ JustListed("firewalls") =>
          LET id == FirstMatch(response, config[K_NAME] \o Str("-firewall")) IN
          /\ id = firewall_id
          /\ id = NoId => (pc # "exit" \/ exitCode = 0)
    /\ (Looked("ssh_keys") /\ ~Found("ssh_keys"))
          => /\ pc = "exit" /\ exitCode # 0
             /\ log = <<Get_("ssh_keys")>>

\* two servers of the requested name were listed and the first one's id taken
C10_Witness ==
    /\ flow = "create" /\ JustListed("servers") /\ Len(response) = 2
    /\ response[1]["name"] = config[K_NAME] /\ response[2]["name"] = config[K_NAME]
    /\ existing_server_id = response[1]["id"] /\ pc = "confirm_replace"

\* the settings validate_config gives a default to
DefaultedKeys == {K_NAME, K_TYPE, K_LOCATION, K_IMAGE, K_FIREWALL, K_BACKUPS}
\* cfg is what validation makes of the file: every defaulted setting is there,
\* and every setting of the file is there with the file's value
ValidatedFrom(cfg, file) ==
    LET loaded == load_config(file) IN
    /\ ~validate_rejects(loaded)
    /\ DOMAIN cfg = DOMAIN loaded \cup DefaultedKeys
    /\ \A k \in DOMAIN loaded : cfg[k] = loaded[k]
\* the create run has got past validation
PastValidation ==
    /\ flow = "create"
    /\ pc \notin {"start", "load", "validate"}
    /\ outcome \notin {"no_config_file", "token_not_set"}

\* C11: only the token is required. In a create run on settings with a valid
\* token, whatever optional settings are omitted, validation leaves every
\* setting of the file as it is and adds each omitted defaulted one, and the
\* run goes on to the SSH key lookup: once the run has ended it has issued
\* GET ssh_keys, and it has not ended on a missing SSH_KEY_NAME.
C11_OnlyTokenRequired ==
    PastValidation
        => /\ \E file \in Files : ValidatedFrom(config, file)
           /\ outcome # "keyerror_config"
           /\ pc = "exit" => HasEv("GET", "ssh_keys")
====
